---- MODULE Spec2Model ----
(***************************************************************************)
(* Model of the stages of trip7_ppt_translation.                           *)
(*                                                                         *)
(*   structured mode : ppt_content_filler.py          fill_japanese_content *)
(*   flat mode       : ppt_content_filler_complete.py complete_replacement  *)
(*   entry points    : the __main__ blocks of the two files above           *)
(*   text export     : extract_text_from_json.py      extract_text_from_ppt_json *)
(*   validation      : ppt_content_filler_complete.py                       *)
(*                     validate_complete_replacement                        *)
(*   translator      : 1_ppt_content_extractor.py     batch_translate_slides*)
(*   extractor       : ppt_content_extractor.py       extract_ppt_content   *)
(*   writers         : 1_ppt_content_extractor.py                           *)
(*                     replace_ppt_text_with_translation,                   *)
(*                     ppt_content_generator.py       create_ppt_from_json  *)
(*                                                                         *)
(* Every stage has its own specification; the variables of the stages that *)
(* a specification does not run keep their initial values.                 *)
(*                                                                         *)
(* Strings are sequences of symbols.  A symbol is one character (" ",      *)
(* "\n", "A", "a", ...) or one marker of the translated text file: "P<n>"  *)
(* is the page marker '=== 第<n>ページ ===' and "K<k>" the block marker     *)
(* 'テキストブロック <k>:'.  Python indices are 0-based, the model's are    *)
(* 1-based.                                                                *)
(***************************************************************************)
EXTENDS Integers, Sequences, FiniteSets, TLC

VARIABLES
    pc,               \* position of the running function
    original_json,    \* content of the file at original_json_path
    output_json,      \* content of the file at output_json_path
    output_written,   \* TRUE once json.dump has written output_json_path
    log,              \* the reports printed so far, in order
    original_data,    \* fill_japanese_content: original_data
    translated_texts, \* fill_japanese_content: translated_texts
    japanese_data,    \* fill_japanese_content: japanese_data
    slide_i,          \* fill_japanese_content: number of slides walked
    slides_data,      \* complete_replacement: slides_data
    japanese_texts,   \* complete_replacement: japanese_texts
    text_positions,   \* complete_replacement: text_positions
    japanese_index,   \* complete_replacement: japanese_index
    replaced_count,   \* complete_replacement: replaced_count
    pos_i,            \* complete_replacement: number of positions walked
    original_exists,  \* os.path.exists(original_json)
    txt_exists,       \* os.path.exists of the translated text file
    detailed_txt,     \* content of the file extract_text_from_ppt_json writes
    translated_txt,   \* content of the file at translated_txt_path
    val_n,            \* validate_complete_replacement: fragments scanned
    val_content,      \* validate_complete_replacement: content
    japanese_count,   \* validate_complete_replacement: japanese_count
    chinese_count,    \* validate_complete_replacement: chinese_count
    english_count,    \* validate_complete_replacement: english_count
    other_count,      \* validate_complete_replacement: other_count
    total_count,      \* validate_complete_replacement: total_count
    chinese_examples, \* validate_complete_replacement: chinese_examples
    tr_slides_data,   \* batch_translate_slides: slides_data
    translated_slides, \* batch_translate_slides: translated_slides
    translated_slide, \* batch_translate_slides: translated_slide
    tr_slide_i,       \* batch_translate_slides: number of slides started
    tr_text_i,        \* batch_translate_slides: number of texts walked
    api_calls,        \* the requests the translation service has received
    ex_slide_i,       \* extract_ppt_content: i
    all_slides,       \* extract_ppt_content: all_slides
    slide_info,       \* extract_ppt_content: slide_info
    shapes_seen,      \* extract_ppt_content: the shapes walked so far, by slide
    files,            \* the image files in output_dir
    writer,           \* which writer runs: "replace" or "create"
    template_given,   \* create_ppt_from_json: template_ppt_path names a file
    template,         \* the document at ppt_path / template_ppt_path
    wr_records,       \* translated_data / the slides_data of json_path
    prs,              \* the writer's presentation object
    wr_slide_i,       \* number of slides / records walked
    saved_ppt,        \* the document at output_path
    ppt_saved         \* TRUE once prs.save has written output_path

fileVars == <<original_exists, txt_exists, detailed_txt, translated_txt>>

valVars == <<val_n, val_content, japanese_count, chinese_count, english_count,
             other_count, total_count, chinese_examples>>

trVars == <<tr_slides_data, translated_slides, translated_slide, tr_slide_i, tr_text_i, api_calls>>

exVars == <<ex_slide_i, all_slides, slide_info, shapes_seen, files>>

wrVars == <<writer, template_given, template, wr_records, prs, wr_slide_i, saved_ppt, ppt_saved>>

stageVars == <<valVars, trVars, exVars, wrVars>>

vars == <<pc, original_json, output_json, output_written, log,
          original_data, translated_texts, japanese_data, slide_i,
          slides_data, japanese_texts, text_positions, japanese_index,
          replaced_count, pos_i, fileVars, stageVars>>

fillVars == <<original_data, translated_texts, japanese_data, slide_i>>

flatVars == <<slides_data, japanese_texts, text_positions, japanese_index,
              replaced_count, pos_i>>

\* the state of the two reconcilers and of their files
reconcileVars == <<original_json, output_json, output_written, fillVars,
                   flatVars, fileVars>>

\* no reconciler has run
ReconcileIdle ==
    /\ original_json = <<>>
    /\ output_json = <<>>
    /\ output_written = FALSE
    /\ original_data = <<>>
    /\ translated_texts = <<>>
    /\ japanese_data = <<>>
    /\ slide_i = 0
    /\ slides_data = <<>>
    /\ japanese_texts = <<>>
    /\ text_positions = <<>>
    /\ japanese_index = 0
    /\ replaced_count = 0
    /\ pos_i = 0
    /\ original_exists = TRUE
    /\ txt_exists = TRUE
    /\ detailed_txt = <<>>
    /\ translated_txt = <<>>

\* validate_complete_replacement lines 155-161
ValidateIdle ==
    /\ val_n = 0
    /\ val_content = <<>>
    /\ japanese_count = 0
    /\ chinese_count = 0
    /\ english_count = 0
    /\ other_count = 0
    /\ total_count = 0
    /\ chinese_examples = <<>>

\* batch_translate_slides has not been called
TranslateIdle ==
    /\ tr_slides_data = <<>>
    /\ translated_slides = <<>>
    /\ translated_slide = <<>>
    /\ tr_slide_i = 0
    /\ tr_text_i = 0
    /\ api_calls = <<>>

\* extract_ppt_content has not been called
ExtractIdle ==
    /\ ex_slide_i = 0
    /\ all_slides = <<>>
    /\ slide_info = <<>>
    /\ shapes_seen = <<>>
    /\ files = <<>>

\* no writer has been called
WriteIdle ==
    /\ writer = "none"
    /\ template_given = FALSE
    /\ template = <<>>
    /\ wr_records = <<>>
    /\ prs = <<>>
    /\ wr_slide_i = 0
    /\ saved_ppt = <<>>
    /\ ppt_saved = FALSE

\* the stages that are not part of the run under study have not started
StagesIdle ==
    /\ ValidateIdle
    /\ TranslateIdle
    /\ ExtractIdle
    /\ WriteIdle

----------------------------------------------------------------------------
(* Bounds of the explored inputs *)

MaxSlides == 2

MaxFillTexts == 3

MaxFlatTexts == 2

MaxSymbols == 5

MaxLines == 3

MaxValTexts == 11

MaxTrSlides == 2

MaxTrTexts == 2

MaxExSlides == 2

MaxExShapes == 3

MaxWrSlides == 2

MaxWrTexts == 2

MaxWrShapes == 2

----------------------------------------------------------------------------
(* Symbols and strings *)

PageMarks == {"P1", "P2"}

BlockMarks == {"K1", "K2", "K3"}

Whitespace == {" ", "\n"}

PageNo(sym) == IF sym = "P1" THEN 1 ELSE 2

RECURSIVE LStrip(_)
LStrip(s) ==
    IF s = <<>> THEN <<>>
    ELSE IF Head(s) \in Whitespace THEN LStrip(Tail(s)) ELSE s

RECURSIVE RStrip(_)
RStrip(s) ==
    IF s = <<>> THEN <<>>
    ELSE IF s[Len(s)] \in Whitespace THEN RStrip(SubSeq(s, 1, Len(s) - 1))
    ELSE s

\* str.strip()
Strip(s) == RStrip(LStrip(s))

\* the indices i >= from of seq, ascending, with seq[i] \in S
RECURSIVE IndicesFrom(_, _, _)
IndicesFrom(seq, S, from) ==
    IF from > Len(seq) THEN <<>>
    ELSE (IF seq[from] \in S THEN <<from>> ELSE <<>>)
         \o IndicesFrom(seq, S, from + 1)

\* the pieces of seq between the elements at the indices idx (ascending),
\* the piece before the first index left out
Pieces(seq, idx) ==
    [j \in 1..Len(idx) |->
        SubSeq(seq, idx[j] + 1,
               IF j < Len(idx) THEN idx[j + 1] - 1 ELSE Len(seq))]

\* all sequences over S of length 0..n
RECURSIVE SeqsUpTo(_, _)
SeqsUpTo(S, n) ==
    IF n = 0 THEN {<<>>}
    ELSE LET shorter == SeqsUpTo(S, n - 1)
         IN  shorter \cup {Append(q, x) : q \in {r \in shorter : Len(r) = n - 1}, x \in S}

RECURSIVE Flatten(_)
Flatten(ss) == IF ss = <<>> THEN <<>> ELSE Head(ss) \o Flatten(Tail(ss))

----------------------------------------------------------------------------
(* The records of ppt_content.json *)

SlideNos == 1..2

\* a TextFragment as the extractor writes it; position and style are opaque
\* and name the slot they were extracted from
Fragment(c, t) ==
    [content |-> c, position |-> <<"pos", t>>, style |-> <<"style", t>>]

SlideRecord(n, texts) ==
    [slide_number |-> n, texts |-> texts, images |-> <<[filename |-> <<"img", n>>]>>]

\* structured mode never reads the original content: the t-th fragment of a
\* slide holds the t-th letter
Letters == <<"a", "b", "c", "d", "e">>

FillTextLists ==
    {[t \in 1..n |-> Fragment(<<Letters[((t - 1) % 5) + 1]>>, t)] : n \in 0..MaxFillTexts}

FillSlideLists ==
    SeqsUpTo({SlideRecord(n, ts) : n \in SlideNos, ts \in FillTextLists}, MaxSlides)

\* flat mode tests the stripped content: a fragment holds text or whitespace
OrigContents == {<<"a">>, <<" ">>}

FlatTextLists ==
    {[t \in 1..Len(cs) |-> Fragment(cs[t], t)] : cs \in SeqsUpTo(OrigContents, MaxFlatTexts)}

FlatSlideLists ==
    {[s \in 1..Len(tl) |-> SlideRecord(s, tl[s])] : tl \in SeqsUpTo(FlatTextLists, MaxSlides)}

Report(kind, slide, block, count) ==
    [kind |-> kind, slide |-> slide, block |-> block, count |-> count]

----------------------------------------------------------------------------
(* ppt_content_filler.py *)

\* the text blocks of one page: re.findall over the stripped page content,
\* each block stripped, empty blocks left out
TextBlocks(page_content) ==
    LET body    == Strip(page_content)
        blocks  == Pieces(body, IndicesFrom(body, BlockMarks, 1))
        cleaned == [j \in 1..Len(blocks) |-> Strip(blocks[j])]
    IN  SelectSeq(cleaned, LAMBDA b : b # <<>>)

parse_translated_txt(content) ==
    LET marks == IndicesFrom(content, PageMarks, 1)
        pages == Pieces(content, marks)
        nums  == {PageNo(content[marks[j]]) : j \in 1..Len(marks)}
        last(n) == CHOOSE j \in 1..Len(marks) :
                      /\ PageNo(content[marks[j]]) = n
                      /\ \A k \in 1..Len(marks) :
                            PageNo(content[marks[k]]) = n => k <= j
    IN  [n \in nums |-> TextBlocks(pages[last(n)])]

\* the pattern of line 31 does not look at the number of a block marker: the
\* explored files hold one of them
TxtSymbols == PageMarks \cup {"K1"} \cup {"A", "B", " "}

TxtFiles == SeqsUpTo(TxtSymbols, MaxSymbols)

\* the mappings parse_translated_txt returns for the explored files
ParsedTxtFiles == {parse_translated_txt(f) : f \in TxtFiles}

\* the shortest file parse_translated_txt reads as the mapping parsed: its
\* pages in ascending order, a block marker before each block
RECURSIVE TxtFileOf(_)
TxtFileOf(parsed) ==
    IF DOMAIN parsed = {} THEN <<>>
    ELSE LET n == CHOOSE m \in DOMAIN parsed : \A k \in DOMAIN parsed : m <= k
             rest == [k \in DOMAIN parsed \ {n} |-> parsed[k]]
         IN  <<IF n = 1 THEN "P1" ELSE "P2">>
             \o Flatten([j \in 1..Len(parsed[n]) |-> <<"K1">> \o parsed[n][j]])
             \o TxtFileOf(rest)

\* one translated file for each way the explored files are parsed
FillTxtFiles == {TxtFileOf(parsed) : parsed \in ParsedTxtFiles}

\* FillTexts pairing one index too few: "i < len(translated_blocks) - 1"
FillTextsOffByOne(texts, translated_blocks) ==
    [i \in 1..Len(texts) |->
        IF i < Len(translated_blocks)
        THEN [texts[i] EXCEPT !.content = translated_blocks[i]]
        ELSE texts[i]]

\* lines 82-88: the loop over the slide's texts
FillTexts(texts, translated_blocks) ==
    [i \in 1..Len(texts) |->
        IF i <= Len(translated_blocks)
        THEN [texts[i] EXCEPT !.content = translated_blocks[i]]
        ELSE texts[i]]

\* FillReports with the surplus test written ">="
FillReportsSurplusGeq(slide_number, texts, translated_blocks) ==
    [j \in 1..(IF Len(texts) > Len(translated_blocks)
               THEN Len(texts) - Len(translated_blocks) ELSE 0) |->
        Report("keep_original", slide_number, Len(translated_blocks) + j, 0)]
    \o (IF Len(translated_blocks) >= Len(texts)
        THEN <<Report("surplus", slide_number, 0, Len(translated_blocks))>>
        ELSE <<>>)

\* lines 82-92: the warnings printed while one translated slide is processed
FillReports(slide_number, texts, translated_blocks) ==
    [j \in 1..(IF Len(texts) > Len(translated_blocks)
               THEN Len(texts) - Len(translated_blocks) ELSE 0) |->
        Report("keep_original", slide_number, Len(translated_blocks) + j, 0)]
    \o (IF Len(translated_blocks) > Len(texts)
        THEN <<Report("surplus", slide_number, 0, Len(translated_blocks))>>
        ELSE <<>>)

\* lines 60-65; lines 114-115 when open() of the original JSON raises
\* FileNotFoundError; lines 16-17 and 44-46 when open() of the translated
\* text raises inside parse_translated_txt, which then returns {}
FillRead ==
    /\ pc = "fill_start"
    /\ IF original_exists
       THEN /\ original_data' = original_json
            /\ translated_texts' = IF txt_exists
                                   THEN parse_translated_txt(translated_txt)
                                   ELSE <<>>
            /\ log' = IF txt_exists THEN log
                      ELSE Append(log, Report("parse_error", 0, 0, 0))
            /\ pc' = "fill_loop"
       ELSE /\ log' = Append(log, Report("file_not_found", 0, 0, 0))
            /\ pc' = "fill_error"
            /\ UNCHANGED <<original_data, translated_texts>>
    /\ japanese_data' = <<>>
    /\ slide_i' = 0
    /\ UNCHANGED <<original_json, output_json, output_written, flatVars, fileVars, stageVars>>

\* lines 70-93 and 97, slide_number in translated_texts
FillSlideTranslated ==
    /\ pc = "fill_loop"
    /\ slide_i < Len(original_data)
    /\ LET s == slide_i + 1
           slide == original_data[s]
           slide_number == slide.slide_number
       IN  /\ slide_number \in DOMAIN translated_texts
           /\ LET translated_blocks == translated_texts[slide_number]
                  texts == FillTexts(slide.texts, translated_blocks)
              IN  /\ original_data' = [original_data EXCEPT ![s].texts = texts]
                  /\ japanese_data' =
                        Append(japanese_data, [slide EXCEPT !.texts = texts])
                  /\ log' = log \o FillReports(slide_number, slide.texts,
                                               translated_blocks)
    /\ slide_i' = slide_i + 1
    /\ UNCHANGED <<pc, original_json, output_json, output_written,
                   translated_texts, flatVars, fileVars, stageVars>>

\* FillSlideMissing with the append inside the translated branch only
FillSlideMissingSkip ==
    /\ pc = "fill_loop"
    /\ slide_i < Len(original_data)
    /\ LET slide == original_data[slide_i + 1]
       IN  /\ slide.slide_number \notin DOMAIN translated_texts
           /\ log' = Append(log, Report("no_translation", slide.slide_number, 0, 0))
    /\ slide_i' = slide_i + 1
    /\ UNCHANGED <<pc, original_json, output_json, output_written,
                   original_data, translated_texts, japanese_data, flatVars, fileVars, stageVars>>

\* FillSlideMissing without its warning
FillSlideMissingSilent ==
    /\ pc = "fill_loop"
    /\ slide_i < Len(original_data)
    /\ LET slide == original_data[slide_i + 1]
       IN  /\ slide.slide_number \notin DOMAIN translated_texts
           /\ japanese_data' = Append(japanese_data, slide)
    /\ slide_i' = slide_i + 1
    /\ UNCHANGED <<pc, original_json, output_json, output_written, log,
                   original_data, translated_texts, flatVars, fileVars, stageVars>>

\* lines 70-76 and 94-97, slide_number not in translated_texts
FillSlideMissing ==
    /\ pc = "fill_loop"
    /\ slide_i < Len(original_data)
    /\ LET slide == original_data[slide_i + 1]
       IN  /\ slide.slide_number \notin DOMAIN translated_texts
           /\ japanese_data' = Append(japanese_data, slide)
           /\ log' = Append(log, Report("no_translation", slide.slide_number, 0, 0))
    /\ slide_i' = slide_i + 1
    /\ UNCHANGED <<pc, original_json, output_json, output_written,
                   original_data, translated_texts, flatVars, fileVars, stageVars>>

\* lines 99-112
FillSave ==
    /\ pc = "fill_loop"
    /\ slide_i = Len(original_data)
    /\ output_json' = japanese_data
    /\ output_written' = TRUE
    /\ log' = log \o
         << Report("processed", 0, 0, Len(japanese_data)),
            Report("translated_pages", 0, 0,
                   Cardinality({p \in DOMAIN translated_texts :
                                   p <= Len(japanese_data)})) >>
    /\ pc' = "fill_done"
    /\ UNCHANGED <<original_json, fillVars, flatVars, fileVars, stageVars>>

InitFill ==
    /\ pc = "fill_start"
    /\ original_json \in FillSlideLists
    /\ output_json = <<>>
    /\ output_written = FALSE
    /\ log = <<>>
    /\ original_data = <<>>
    /\ translated_texts = <<>>
    /\ japanese_data = <<>>
    /\ slide_i = 0
    /\ slides_data = <<>>
    /\ japanese_texts = <<>>
    /\ text_positions = <<>>
    /\ japanese_index = 0
    /\ replaced_count = 0
    /\ pos_i = 0
    /\ original_exists = TRUE
    /\ txt_exists = TRUE
    /\ detailed_txt = <<>>
    /\ translated_txt \in FillTxtFiles
    /\ StagesIdle

NextFill ==
    \/ FillRead
    \/ FillSlideTranslated
    \/ FillSlideMissing
    \/ FillSave

SpecFill == InitFill /\ [][NextFill]_vars

----------------------------------------------------------------------------
(* ppt_content_filler_complete.py *)

\* content.split('\n')
Split(content) ==
    LET idx == IndicesFrom(content, {"\n"}, 1)
    IN  IF idx = <<>> THEN <<content>>
        ELSE <<SubSeq(content, 1, idx[1] - 1)>> \o Pieces(content, idx)

\* line.startswith('=== 第') or line.startswith('テキストブロック')
StartsWithMarker(line) ==
    line # <<>> /\ Head(line) \in PageMarks \cup BlockMarks

\* extract_all_japanese_text_complete without the empty-line test
extract_all_japanese_text_keep_blank(content) ==
    LET lines == Split(content)
        stripped == [j \in 1..Len(lines) |-> Strip(lines[j])]
    IN  SelectSeq(stripped, LAMBDA line : ~StartsWithMarker(line))

\* lines 16-26 and 34
extract_all_japanese_text_complete(content) ==
    LET lines == Split(content)
        stripped == [j \in 1..Len(lines) |-> Strip(lines[j])]
    IN  SelectSeq(stripped, LAMBDA line : line # <<>> /\ ~StartsWithMarker(line))

\* SlidePositions without the test of line 55
SlidePositionsAll(texts, s, t) == [j \in 1..(Len(texts) - t + 1) |-> <<s, t + j - 1>>]

\* the (slide_idx, text_idx) pairs of one slide whose stripped content is
\* not empty, from text index t on
RECURSIVE SlidePositions(_, _, _)
SlidePositions(texts, s, t) ==
    IF t > Len(texts) THEN <<>>
    ELSE (IF Strip(texts[t].content) # <<>> THEN << <<s, t>> >> ELSE <<>>)
         \o SlidePositions(texts, s, t + 1)

get_all_text_positions(slides) ==
    Flatten([s \in 1..Len(slides) |-> SlidePositions(slides[s].texts, s, 1)])

FlatLines ==
    { <<>>, <<" ">>, <<"P1">>, <<"K1", "A">>, <<"A">>, <<" ", "B", " ">> }

RECURSIVE JoinLines(_)
JoinLines(ls) ==
    IF ls = <<>> THEN <<>>
    ELSE IF Len(ls) = 1 THEN ls[1]
    ELSE ls[1] \o <<"\n">> \o JoinLines(Tail(ls))

FlatFiles == {JoinLines(ls) : ls \in SeqsUpTo(FlatLines, MaxLines)}

\* the lists extract_all_japanese_text_complete returns for the explored files
ExtractedTexts == {extract_all_japanese_text_complete(f) : f \in FlatFiles}

\* WrapIndex going back to the last string instead of the first
WrapIndexToLast(index, texts) == IF index >= Len(texts) THEN Len(texts) - 1 ELSE index

\* lines 100-101: the index of the translated string for the next position
WrapIndex(index, texts) == IF index >= Len(texts) THEN 0 ELSE index

\* RemainingJapanese starting one string early
RemainingJapaneseFromPrevious(texts, index) == SubSeq(texts, index, Len(texts))

\* RemainingJapanese starting one string late
RemainingJapaneseSkipOne(texts, index) == SubSeq(texts, index + 2, Len(texts))

\* line 114: japanese_texts[japanese_index:]
RemainingJapanese(texts, index) == SubSeq(texts, index + 1, Len(texts))

\* NewTextObjs inserting each leftover at the front
NewTextObjsReversed(remaining) ==
    [j \in 1..Len(remaining) |-> [content |-> remaining[Len(remaining) + 1 - j]]]

\* lines 125-129: the new text objects carry a content field only
NewTextObjs(remaining) == [j \in 1..Len(remaining) |-> [content |-> remaining[j]]]

\* lines 73-80; the open() at line 73 is outside every try, so a missing
\* original JSON ends the function with an uncaught FileNotFoundError; a
\* missing translated text makes extract_all_japanese_text_complete print
\* the exception and return [] (lines 10-11, 36-38)
FlatRead ==
    /\ pc = "flat_start"
    /\ IF original_exists
       THEN /\ slides_data' = original_json
            /\ \E texts \in (IF txt_exists THEN ExtractedTexts ELSE {<<>>}) :
                   japanese_texts' = texts
            /\ text_positions' = get_all_text_positions(original_json)
            /\ log' = IF txt_exists THEN log
                      ELSE Append(log, Report("extract_error", 0, 0, 0))
            /\ pc' = "flat_check"
       ELSE /\ log' = Append(log, Report("uncaught_file_not_found", 0, 0, 0))
            /\ pc' = "flat_crash"
            /\ UNCHANGED <<slides_data, japanese_texts, text_positions>>
    /\ UNCHANGED <<original_json, output_json, output_written,
                   japanese_index, replaced_count, pos_i, fillVars, fileVars, stageVars>>

\* lines 82-84
FlatNoTexts ==
    /\ pc = "flat_check"
    /\ japanese_texts = <<>>
    /\ log' = Append(log, Report("no_japanese_text", 0, 0, 0))
    /\ pc' = "flat_abort"
    /\ UNCHANGED <<original_json, output_json, output_written, flatVars, fillVars, fileVars, stageVars>>

\* lines 86-88
FlatNoPositions ==
    /\ pc = "flat_check"
    /\ japanese_texts # <<>>
    /\ text_positions = <<>>
    /\ log' = Append(log, Report("no_text_position", 0, 0, 0))
    /\ pc' = "flat_abort"
    /\ UNCHANGED <<original_json, output_json, output_written, flatVars, fillVars, fileVars, stageVars>>

\* lines 90-96
FlatStart ==
    /\ pc = "flat_check"
    /\ japanese_texts # <<>>
    /\ text_positions # <<>>
    /\ japanese_index' = 0
    /\ replaced_count' = 0
    /\ pos_i' = 0
    /\ pc' = "flat_loop"
    /\ UNCHANGED <<original_json, output_json, output_written, log,
                   slides_data, japanese_texts, text_positions, fillVars, fileVars, stageVars>>

\* lines 98-111, one iteration
FlatReplace ==
    /\ pc = "flat_loop"
    /\ pos_i < Len(text_positions)
    /\ LET slide_idx == text_positions[pos_i + 1][1]
           text_idx  == text_positions[pos_i + 1][2]
           index == WrapIndex(japanese_index, japanese_texts)
           new_content == japanese_texts[index + 1]
       IN  /\ slides_data' =
                 [slides_data EXCEPT ![slide_idx].texts[text_idx].content = new_content]
           /\ japanese_index' = index + 1
    /\ replaced_count' = replaced_count + 1
    /\ pos_i' = pos_i + 1
    /\ UNCHANGED <<pc, original_json, output_json, output_written, log,
                   japanese_texts, text_positions, fillVars, fileVars, stageVars>>

\* lines 113-131
FlatAppend ==
    /\ pc = "flat_loop"
    /\ pos_i = Len(text_positions)
    /\ LET remaining_japanese == RemainingJapanese(japanese_texts, japanese_index)
           last == Len(slides_data)
       IN  IF remaining_japanese # <<>>
           THEN /\ log' = Append(log, Report("remaining", 0, 0, Len(remaining_japanese)))
                /\ IF slides_data # <<>>
                   THEN /\ slides_data' =
                             [slides_data EXCEPT ![last].texts =
                                 @ \o NewTextObjs(remaining_japanese)]
                        /\ replaced_count' = replaced_count + Len(remaining_japanese)
                   ELSE UNCHANGED <<slides_data, replaced_count>>
           ELSE UNCHANGED <<log, slides_data, replaced_count>>
    /\ pc' = "flat_save"
    /\ UNCHANGED <<original_json, output_json, output_written, japanese_texts,
                   text_positions, japanese_index, pos_i, fillVars, fileVars, stageVars>>

\* lines 133-143
FlatSave ==
    /\ pc = "flat_save"
    /\ output_json' = slides_data
    /\ output_written' = TRUE
    /\ log' = log \o
         << Report("replaced_count", 0, 0, replaced_count),
            Report("japanese_used", 0, 0, Len(japanese_texts)) >>
    /\ pc' = "flat_done"
    /\ UNCHANGED <<original_json, flatVars, fillVars, fileVars, stageVars>>

InitFlat ==
    /\ pc = "flat_start"
    /\ original_json \in FlatSlideLists
    /\ output_json = <<>>
    /\ output_written = FALSE
    /\ log = <<>>
    /\ original_data = <<>>
    /\ translated_texts = <<>>
    /\ japanese_data = <<>>
    /\ slide_i = 0
    /\ slides_data = <<>>
    /\ japanese_texts = <<>>
    /\ text_positions = <<>>
    /\ japanese_index = 0
    /\ replaced_count = 0
    /\ pos_i = 0
    /\ original_exists = TRUE
    /\ txt_exists = TRUE
    /\ detailed_txt = <<>>
    /\ translated_txt = <<>>
    /\ StagesIdle

NextFlat ==
    \/ FlatRead
    \/ FlatNoTexts
    \/ FlatNoPositions
    \/ FlatStart
    \/ FlatReplace
    \/ FlatAppend
    \/ FlatSave

SpecFlat == InitFlat /\ [][NextFlat]_vars

(***************************************************************************)
(* The two entry points: ppt_content_filler.py lines 158-183 and           *)
(* ppt_content_filler_complete.py lines 216-245.  Each checks that both    *)
(* input files exist before it calls its reconciler; exit(1) ends the run. *)
(***************************************************************************)
MainPcs == {"main_fill", "main_flat"}

\* filler 168-170, complete 230-232
MainOriginalMissing ==
    /\ pc \in MainPcs
    /\ ~original_exists
    /\ log' = Append(log, Report("original_missing", 0, 0, 0))
    /\ pc' = "exit_1"
    /\ UNCHANGED <<original_json, output_json, output_written, fillVars,
                   flatVars, fileVars, stageVars>>

\* the second check falls through to the call
MainTxtMissingIgnored ==
    /\ pc \in MainPcs
    /\ original_exists
    /\ ~txt_exists
    /\ pc' = IF pc = "main_fill" THEN "fill_start" ELSE "flat_start"
    /\ UNCHANGED <<original_json, output_json, output_written, log, fillVars,
                   flatVars, fileVars, stageVars>>

\* filler 172-174, complete 234-236
MainTxtMissing ==
    /\ pc \in MainPcs
    /\ original_exists
    /\ ~txt_exists
    /\ log' = Append(log, Report("txt_missing", 0, 0, 0))
    /\ pc' = "exit_1"
    /\ UNCHANGED <<original_json, output_json, output_written, fillVars,
                   flatVars, fileVars, stageVars>>

\* filler 177, complete 239
MainCall ==
    /\ pc \in MainPcs
    /\ original_exists
    /\ txt_exists
    /\ pc' = IF pc = "main_fill" THEN "fill_start" ELSE "flat_start"
    /\ UNCHANGED <<original_json, output_json, output_written, log, fillVars,
                   flatVars, fileVars, stageVars>>

\* a file that does not exist has no content
InitRun ==
    /\ pc \in MainPcs
    /\ original_exists \in BOOLEAN
    /\ txt_exists \in BOOLEAN
    /\ original_json \in
          (IF ~original_exists THEN {<<>>}
           ELSE IF pc = "main_fill" THEN FillSlideLists ELSE FlatSlideLists)
    /\ output_json = <<>>
    /\ output_written = FALSE
    /\ log = <<>>
    /\ original_data = <<>>
    /\ translated_texts = <<>>
    /\ japanese_data = <<>>
    /\ slide_i = 0
    /\ slides_data = <<>>
    /\ japanese_texts = <<>>
    /\ text_positions = <<>>
    /\ japanese_index = 0
    /\ replaced_count = 0
    /\ pos_i = 0
    /\ detailed_txt = <<>>
    /\ translated_txt \in
          (IF pc = "main_fill" /\ txt_exists THEN FillTxtFiles ELSE {<<>>})
    /\ StagesIdle

NextRun ==
    \/ MainOriginalMissing
    \/ MainTxtMissing
    \/ MainCall
    \/ NextFill
    \/ NextFlat

SpecRun == InitRun /\ [][NextRun]_vars

----------------------------------------------------------------------------
(* extract_text_from_json.py: extract_text_from_ppt_json, and the way its   *)
(* file reaches fill_japanese_content.                                     *)
(*                                                                         *)
(* "Y<n>" is the page marker '=== 第<n>页 ===' and "W<k>" the block marker  *)
(* '文本块 <k>:' that the exporter writes, "none" its line for a slide     *)
(* without texts.  The exporter writes ppt_texts_detailed.txt (line 90)    *)
(* and ppt_content_filler.py reads ppt_texts_japanese.txt (line 161): the  *)
(* translation between the two is made outside the repository.  It turns  *)
(* each marker into the form the patterns of ppt_content_filler.py lines   *)
(* 20 and 31 expect and each string into its translation; at most MaxLost  *)
(* markers are lost: the string of a lost block marker comes back empty, a *)
(* lost page marker comes back in a form the pattern does not match.       *)

MaxLabelTexts == 2

MaxLost == 1

ExportPageMarks == {"Y1", "Y2"}

ExportBlockMarks == {"W1", "W2", "W3"}

\* f"\n=== 第{slide_number}页 ==="
ExportPageMark(slide_number) == <<"\n", IF slide_number = 1 THEN "Y1" ELSE "Y2">>

\* f"\n文本块 {i}:"
ExportBlockMark(i) == <<"\n", <<"W1", "W2", "W3">>[i]>>

\* the t-th fragment of a slide holds the t-th letter or nothing
LabelTextLists ==
    {[t \in 1..n |-> Fragment(IF t \in empty THEN <<>> ELSE <<Letters[t]>>, t)] :
        n \in 0..MaxLabelTexts, empty \in SUBSET (1..MaxLabelTexts)}

\* at most one slide for each number a page marker of the model carries
LabelSlideLists ==
    {[s \in 1..Len(tl) |-> SlideRecord(s, tl[s])] :
        tl \in SeqsUpTo(LabelTextLists, Cardinality(SlideNos))}

\* lines 27-31: enumerate(texts, 1) numbers every fragment, the test of line
\* 29 leaves the empty ones out
ExportedBlocks(texts) ==
    Flatten([i \in 1..Len(texts) |->
        LET content == Strip(texts[i].content)
        IN  IF content # <<>> THEN <<ExportBlockMark(i), content>> ELSE <<>>])

\* lines 18-33: extracted_texts
ExportedLines(slides) ==
    Flatten([s \in 1..Len(slides) |->
        <<ExportPageMark(slides[s].slide_number)>>
        \o (IF slides[s].texts # <<>> THEN ExportedBlocks(slides[s].texts)
            ELSE <<<<"none">>>>)])

\* lines 20 and 31 of ppt_content_filler.py: the markers the filler looks for
MarkerInJapanese ==
    [Y1 |-> "P1", Y2 |-> "P2", W1 |-> "K1", W2 |-> "K2", W3 |-> "K3"]

\* the translation of a character
Upper == [a |-> "A", b |-> "B", c |-> "C"]

\* the translated file, the markers at the indices lost being lost
TranslatedText(file, lost) ==
    LET mark(j) == CHOOSE i \in 0..j :
                      /\ i > 0 => file[i] \in ExportPageMarks \cup ExportBlockMarks
                      /\ \A k \in (i + 1)..j :
                            file[k] \notin ExportPageMarks \cup ExportBlockMarks
        sym(j) ==
            IF file[j] \in ExportPageMarks
            THEN IF j \in lost THEN <<>> ELSE <<MarkerInJapanese[file[j]]>>
            ELSE IF file[j] \in ExportBlockMarks
            THEN <<MarkerInJapanese[file[j]]>>
            ELSE IF mark(j) \in lost /\ file[mark(j)] \in ExportBlockMarks
            THEN <<>>
            ELSE <<IF file[j] \in DOMAIN Upper THEN Upper[file[j]] ELSE file[j]>>
    IN  Flatten([j \in 1..Len(file) |-> sym(j)])

\* extract_text_from_ppt_json, lines 12-53
ExportText ==
    /\ pc = "export_start"
    /\ IF original_exists
       THEN /\ detailed_txt' = JoinLines(ExportedLines(original_json))
            /\ log' = log \o
                 << Report("exported", 0, 0, Len(original_json)),
                    Report("text_blocks", 0, 0,
                           Len(Flatten([s \in 1..Len(original_json) |->
                                           original_json[s].texts]))) >>
       ELSE /\ log' = Append(log, Report("file_not_found", 0, 0, 0))
            /\ UNCHANGED detailed_txt
    /\ pc' = "export_done"
    /\ UNCHANGED <<original_json, output_json, output_written, fillVars,
                   flatVars, original_exists, txt_exists, translated_txt,
                   stageVars>>

\* the exported file is translated and stored where line 161 of
\* ppt_content_filler.py looks for it
TranslateExportedText ==
    /\ pc = "export_done"
    /\ original_exists
    /\ \E lost \in SUBSET {j \in 1..Len(detailed_txt) :
                             detailed_txt[j] \in ExportPageMarks \cup ExportBlockMarks} :
          /\ Cardinality(lost) <= MaxLost
          /\ translated_txt' = TranslatedText(detailed_txt, lost)
    /\ pc' = "fill_start"
    /\ UNCHANGED <<original_json, output_json, output_written, log, fillVars,
                   flatVars, original_exists, txt_exists, detailed_txt,
                   stageVars>>

InitRoundTrip ==
    /\ pc = "export_start"
    /\ original_json \in LabelSlideLists
    /\ output_json = <<>>
    /\ output_written = FALSE
    /\ log = <<>>
    /\ original_data = <<>>
    /\ translated_texts = <<>>
    /\ japanese_data = <<>>
    /\ slide_i = 0
    /\ slides_data = <<>>
    /\ japanese_texts = <<>>
    /\ text_positions = <<>>
    /\ japanese_index = 0
    /\ replaced_count = 0
    /\ pos_i = 0
    /\ original_exists = TRUE
    /\ txt_exists = TRUE
    /\ detailed_txt = <<>>
    /\ translated_txt = <<>>
    /\ StagesIdle

NextRoundTrip ==
    \/ ExportText
    \/ TranslateExportedText
    \/ NextFill

SpecRoundTrip == InitRoundTrip /\ [][NextRoundTrip]_vars

----------------------------------------------------------------------------
(* ppt_content_filler_complete.py: validate_complete_replacement            *)
(*                                                                         *)
(* A character of a content is one symbol.  "ka" stands for a character    *)
(* that the class of line 172 matches (one of the literal characters       *)
(* hi ra ga na ka ta na, the long-vowel mark, or a katakana in the range   *)
(* small-a .. vu), "ko" for a hiragana that the class does not list, "zh"  *)
(* for a character in U+4E00..U+9FFF and "e" for a latin letter.           *)

\* line 172: r'[ひらがなカタカナーァ-ヴ]'
JapanesePattern == {"hi", "ra", "ga", "na", "ka", "ta", "long"}

\* line 175: r'[\u4e00-\u9fff]'
ChinesePattern == {"zh"}

\* line 180: r'[a-zA-Z]'
EnglishPattern == {"e", "E"}

\* re.search(class, content)
Search(class, c) == \E j \in 1..Len(c) : c[j] \in class

\* line 177
MaxExamples == 10

\* line 178
ExampleChars == 50

\* line 178: content[:50]
Prefix(c, n) == SubSeq(c, 1, IF Len(c) < n THEN Len(c) ELSE n)

\* a content longer than the examples keep
LongChinese == [j \in 1..(ExampleChars + 1) |-> "zh"]

\* the contents the scanned record set may hold
ValContents ==
    { <<" ">>, <<"ka">>, <<"ka", "zh">>, <<"ko">>, <<"ko", "zh">>,
      LongChinese, <<"e">> }

\* the source-script test comes first
BucketChineseFirst(c) ==
    IF Search(ChinesePattern, c) THEN "chinese"
    ELSE IF Search(JapanesePattern, c) THEN "japanese"
    ELSE IF Search(EnglishPattern, c) THEN "english"
    ELSE "other"

\* lines 172-183: the if / elif chain
Bucket(c) ==
    IF Search(JapanesePattern, c) THEN "japanese"
    ELSE IF Search(ChinesePattern, c) THEN "chinese"
    ELSE IF Search(EnglishPattern, c) THEN "english"
    ELSE "other"

Count(old, hit) == IF hit THEN old + 1 ELSE old

\* lines 164-183: one pass of the inner loop over one text_obj
ValidateFragment ==
    /\ pc = "val_scan"
    /\ val_n < MaxValTexts
    /\ \E c \in ValContents :
          LET counted == Strip(c) # <<>>
              b == Bucket(c)
          IN  /\ val_content' = c
              /\ val_n' = val_n + 1
              /\ total_count' = Count(total_count, counted)
              /\ japanese_count' = Count(japanese_count, counted /\ b = "japanese")
              /\ chinese_count' = Count(chinese_count, counted /\ b = "chinese")
              /\ english_count' = Count(english_count, counted /\ b = "english")
              /\ other_count' = Count(other_count, counted /\ b = "other")
              /\ chinese_examples' =
                    IF counted /\ b = "chinese" /\ Len(chinese_examples) < MaxExamples
                    THEN Append(chinese_examples, Prefix(c, ExampleChars))
                    ELSE chinese_examples
    /\ UNCHANGED <<pc, log, reconcileVars, trVars, exVars, wrVars>>

\* lines 185-208: the summary; the defect report lists chinese_examples
ValidateReport ==
    /\ pc = "val_scan"
    /\ log' = log \o
         << Report("chinese_count", 0, 0, chinese_count),
            Report("total_count", 0, 0, total_count) >> \o
         (IF total_count = 0 THEN <<>>
          ELSE IF chinese_count = 0
               THEN <<Report("no_residue", 0, 0, 0)>>
               ELSE <<Report("residue", 0, 0, chinese_count)>>)
    /\ pc' = "val_done"
    /\ UNCHANGED <<reconcileVars, valVars, trVars, exVars, wrVars>>

InitValidate ==
    /\ pc = "val_scan"
    /\ log = <<>>
    /\ ReconcileIdle
    /\ ValidateIdle
    /\ TranslateIdle
    /\ ExtractIdle
    /\ WriteIdle

NextValidate ==
    \/ ValidateFragment
    \/ ValidateReport

SpecValidate == InitValidate /\ [][NextValidate]_vars

----------------------------------------------------------------------------
(* 1_ppt_content_extractor.py: translate_to_japanese, batch_translate_slides *)

\* the texts of one extracted slide: trimmed, non-empty contents
TrTextLists ==
    {[t \in 1..n |-> [content |-> <<Letters[((t - 1) % 5) + 1]>>]] : n \in 0..MaxTrTexts}

\* the lists batch_translate_slides may be given
TrSlideLists ==
    SeqsUpTo({[slide_number |-> n, texts |-> texts,
               images |-> <<[filename |-> <<"img", n>>]>>] :
                 n \in SlideNos, texts \in TrTextLists}, MaxTrSlides)

\* lines 95-109: what the service answers to a request that succeeds
Response(text) == <<" ", "J">> \o text \o <<"\n">>

\* lines 131-135
TranslateSlideStart ==
    /\ pc = "tr_loop"
    /\ tr_slide_i < Len(tr_slides_data)
    /\ tr_slide_i' = tr_slide_i + 1
    /\ translated_slide' =
          [slide_number |-> tr_slides_data[tr_slide_i + 1].slide_number,
           texts |-> <<>>,
           images |-> tr_slides_data[tr_slide_i + 1].images]
    /\ tr_text_i' = 0
    /\ pc' = "tr_texts"
    /\ UNCHANGED <<log, reconcileVars, valVars, exVars, wrVars, tr_slides_data,
                   translated_slides, api_calls>>

\* lines 137-147 with lines 95-112: the call returns a response
TranslateTextOk ==
    /\ pc = "tr_texts"
    /\ tr_text_i < Len(tr_slides_data[tr_slide_i].texts)
    /\ LET original_text == tr_slides_data[tr_slide_i].texts[tr_text_i + 1].content
           translated_text == Strip(Response(original_text))
       IN  /\ api_calls' = Append(api_calls,
                 [slide |-> tr_slide_i, text |-> tr_text_i + 1,
                  request |-> original_text, ok |-> TRUE])
           /\ translated_slide' =
                 [translated_slide EXCEPT !.texts =
                    Append(@, [content |-> translated_text,
                               original_content |-> original_text])]
    /\ tr_text_i' = tr_text_i + 1
    /\ UNCHANGED <<pc, log, reconcileVars, valVars, exVars, wrVars, tr_slides_data,
                   translated_slides, tr_slide_i>>

\* a failed call leaves the fragment out
TranslateTextFailSkip ==
    /\ pc = "tr_texts"
    /\ tr_text_i < Len(tr_slides_data[tr_slide_i].texts)
    /\ LET original_text == tr_slides_data[tr_slide_i].texts[tr_text_i + 1].content
       IN  /\ api_calls' = Append(api_calls,
                 [slide |-> tr_slide_i, text |-> tr_text_i + 1,
                  request |-> original_text, ok |-> FALSE])
           /\ log' = Append(log, Report("translate_failed", tr_slide_i, tr_text_i + 1, 0))
    /\ tr_text_i' = tr_text_i + 1
    /\ UNCHANGED <<pc, reconcileVars, valVars, exVars, wrVars, tr_slides_data,
                   translated_slides, translated_slide, tr_slide_i>>

\* lines 137-147 with lines 95-96 and 114-116: the call raises
TranslateTextFail ==
    /\ pc = "tr_texts"
    /\ tr_text_i < Len(tr_slides_data[tr_slide_i].texts)
    /\ LET original_text == tr_slides_data[tr_slide_i].texts[tr_text_i + 1].content
           translated_text == original_text
       IN  /\ api_calls' = Append(api_calls,
                 [slide |-> tr_slide_i, text |-> tr_text_i + 1,
                  request |-> original_text, ok |-> FALSE])
           /\ log' = Append(log, Report("translate_failed", tr_slide_i, tr_text_i + 1, 0))
           /\ translated_slide' =
                 [translated_slide EXCEPT !.texts =
                    Append(@, [content |-> translated_text,
                               original_content |-> original_text])]
    /\ tr_text_i' = tr_text_i + 1
    /\ UNCHANGED <<pc, reconcileVars, valVars, exVars, wrVars, tr_slides_data,
                   translated_slides, tr_slide_i>>

\* lines 149-150
TranslateSlideDone ==
    /\ pc = "tr_texts"
    /\ tr_text_i = Len(tr_slides_data[tr_slide_i].texts)
    /\ translated_slides' = Append(translated_slides, translated_slide)
    /\ log' = Append(log, Report("slide_translated", translated_slide.slide_number, 0, 0))
    /\ pc' = "tr_loop"
    /\ UNCHANGED <<reconcileVars, valVars, exVars, wrVars, tr_slides_data, translated_slide,
                   tr_slide_i, tr_text_i, api_calls>>

\* line 152
TranslateReturn ==
    /\ pc = "tr_loop"
    /\ tr_slide_i = Len(tr_slides_data)
    /\ pc' = "tr_done"
    /\ UNCHANGED <<log, reconcileVars, valVars, exVars, wrVars, trVars>>

\* line 129
InitTranslate ==
    /\ pc = "tr_loop"
    /\ log = <<>>
    /\ tr_slides_data \in TrSlideLists
    /\ translated_slides = <<>>
    /\ translated_slide = <<>>
    /\ tr_slide_i = 0
    /\ tr_text_i = 0
    /\ api_calls = <<>>
    /\ ReconcileIdle
    /\ ValidateIdle
    /\ ExtractIdle
    /\ WriteIdle

NextTranslate ==
    \/ TranslateSlideStart
    \/ TranslateTextOk
    \/ TranslateTextFail
    \/ TranslateSlideDone
    \/ TranslateReturn

SpecTranslate == InitTranslate /\ [][NextTranslate]_vars

----------------------------------------------------------------------------
(* ppt_content_extractor.py: extract_ppt_content                            *)
(*                                                                         *)
(* The document is read one shape at a time; MaxExSlides bounds its slides *)
(* and MaxExShapes the shapes of all its slides together.  A shape is a    *)
(* text shape (hasattr(shape, "text"), with the z_order its element        *)
(* reports) or a                                                           *)
(* picture (shape_type 13).  The extraction of a picture succeeds, raises  *)
(* before the file is opened (shape.image, image.blob, image.ext) or       *)
(* raises once the file has been opened for writing; save_images has its   *)
(* default, True.  The extractor of                                        *)
(* 1_ppt_content_extractor.py (lines 13-81) has the same statements        *)
(* without the geometry, the z_order and the sort of lines 138-139.        *)

TextShapes ==
    { [kind |-> "text", text |-> <<" ", "a">>, z_order |-> 1, image |-> "none"],
      [kind |-> "text", text |-> <<"b", "\n">>, z_order |-> 0, image |-> "none"],
      [kind |-> "text", text |-> <<" ">>, z_order |-> 0, image |-> "none"] }

Pictures ==
    { [kind |-> "picture", text |-> <<>>, z_order |-> 0, image |-> outcome] :
        outcome \in {"ok", "raises_before_open", "raises_after_open"} }

\* the geometry of the k-th shape of slide i (lines 43-48, 110-115)
Position(i, k) == <<"pos", i, k>>

\* image.blob of the shape at a position
Blob(position) == <<"blob", position[2], position[3]>>

\* what a file holds when the write that filled it raised
Partial(position) == <<"partial", position[2], position[3]>>

\* the name leaves the slide number out
ImageNameWithoutSlide(i, k, ext) == <<"slide", 0, "img", k, ext>>

\* line 101: f"slide_{i}_img_{len(slide_info['images']) + 1}.{image_ext}"
ImageName(i, k, ext) == <<"slide", i, "img", k, ext>>

\* list.sort(key=z_order) is stable: x goes behind every element whose
\* z_order is not larger
InsertByZOrder(sorted, x) ==
    LET k == Cardinality({j \in 1..Len(sorted) : sorted[j].z_order <= x.z_order})
    IN  SubSeq(sorted, 1, k) \o <<x>> \o SubSeq(sorted, k + 1, Len(sorted))

\* lines 138-139
RECURSIVE SortByZOrder(_)
SortByZOrder(seq) ==
    IF seq = <<>> THEN <<>>
    ELSE InsertByZOrder(SortByZOrder(SubSeq(seq, 1, Len(seq) - 1)), seq[Len(seq)])

\* the shapes of slide i walked so far
ShapesOfSlide == shapes_seen[ex_slide_i]

\* the number of shapes walked on all slides
ShapesWalked == Len(Flatten(shapes_seen))

\* lines 29-36
ExtractSlideStart ==
    /\ pc = "ex_next"
    /\ ex_slide_i < MaxExSlides
    /\ ex_slide_i' = ex_slide_i + 1
    /\ slide_info' = [slide_number |-> ex_slide_i + 1, texts |-> <<>>, images |-> <<>>]
    /\ shapes_seen' = Append(shapes_seen, <<>>)
    /\ pc' = "ex_shapes"
    /\ UNCHANGED <<log, reconcileVars, valVars, trVars, wrVars, all_slides, files>>

\* lines 38-93 for a shape that is not a picture
ExtractTextShape ==
    /\ pc = "ex_shapes"
    /\ ShapesWalked < MaxExShapes
    /\ \E shape \in TextShapes :
          /\ shapes_seen' = [shapes_seen EXCEPT ![ex_slide_i] = Append(@, shape)]
          /\ slide_info' =
                IF Strip(shape.text) # <<>>
                THEN [slide_info EXCEPT !.texts =
                        Append(@, [content |-> Strip(shape.text),
                                   position |-> Position(ex_slide_i, Len(ShapesOfSlide) + 1),
                                   z_order |-> shape.z_order])]
                ELSE slide_info
    /\ UNCHANGED <<pc, log, reconcileVars, valVars, trVars, wrVars, ex_slide_i,
                   all_slides, files>>

\* lines 96-135 for a picture
ExtractPicture ==
    /\ pc = "ex_shapes"
    /\ ShapesWalked < MaxExShapes
    /\ \E shape \in Pictures :
          LET position == Position(ex_slide_i, Len(ShapesOfSlide) + 1)
              image_name == ImageName(ex_slide_i, Len(slide_info.images) + 1, "png")
          IN  /\ shapes_seen' = [shapes_seen EXCEPT ![ex_slide_i] = Append(@, shape)]
              /\ files' =
                    CASE shape.image = "ok" -> (image_name :> Blob(position)) @@ files
                      [] shape.image = "raises_after_open" ->
                            (image_name :> Partial(position)) @@ files
                      [] OTHER -> files
              /\ slide_info' =
                    IF shape.image = "ok"
                    THEN [slide_info EXCEPT !.images =
                            Append(@, [filename |-> image_name,
                                       position |-> position,
                                       z_order |-> shape.z_order])]
                    ELSE slide_info
              /\ log' = IF shape.image = "ok" THEN log
                        ELSE Append(log, Report("image_error", ex_slide_i, 0, 0))
    /\ UNCHANGED <<pc, reconcileVars, valVars, trVars, wrVars, ex_slide_i, all_slides>>

\* lines 138-141
ExtractSlideEnd ==
    /\ pc = "ex_shapes"
    /\ all_slides' = Append(all_slides,
          [slide_info EXCEPT !.texts = SortByZOrder(@),
                             !.images = SortByZOrder(@)])
    /\ pc' = "ex_next"
    /\ UNCHANGED <<log, reconcileVars, valVars, trVars, wrVars, ex_slide_i, slide_info,
                   shapes_seen, files>>

\* lines 143-155
ExtractSave ==
    /\ pc = "ex_next"
    /\ log' = Append(log, Report("extracted", 0, 0, Len(all_slides)))
    /\ pc' = "ex_done"
    /\ UNCHANGED <<reconcileVars, valVars, trVars, wrVars, exVars, wrVars>>

\* lines 24-27
InitExtract ==
    /\ pc = "ex_next"
    /\ log = <<>>
    /\ ReconcileIdle
    /\ ValidateIdle
    /\ TranslateIdle
    /\ ExtractIdle
    /\ WriteIdle

NextExtract ==
    \/ ExtractSlideStart
    \/ ExtractTextShape
    \/ ExtractPicture
    \/ ExtractSlideEnd
    \/ ExtractSave

SpecExtract == InitExtract /\ [][NextExtract]_vars

----------------------------------------------------------------------------
(* The two document writers:                                               *)
(*   1_ppt_content_extractor.py  replace_ppt_text_with_translation         *)
(*   ppt_content_generator.py    create_ppt_from_json, add_text_to_slide   *)
(*                                                                         *)
(* A document is a sequence of slides and a slide a sequence of shapes.    *)
(* The records carry no images, and a template has the blank layout that   *)
(* line 56 of ppt_content_generator.py asks for.                           *)

\* a shape with text and a shape whose text is blank
WrShapes ==
    { [kind |-> "text", text |-> <<"s">>], [kind |-> "text", text |-> <<" ">>] }

\* the documents at ppt_path
WrDocs == SeqsUpTo(SeqsUpTo(WrShapes, MaxWrShapes), MaxWrSlides)

\* the templates of create_ppt_from_json: all their slides are removed
\* (lines 29-33), so the model gives them no shapes
WrTemplates == {[j \in 1..k |-> <<>>] : k \in 0..MaxWrSlides}

\* the texts of one record: translated content and, when the record set
\* comes from ppt_content_extractor.py, the run texts of the extracted shape
WrTextLists(styled) ==
    {[t \in 1..n |->
        [content |-> <<"J", Letters[((t - 1) % 5) + 1]>>,
         style |-> IF styled THEN <<Letters[((t - 1) % 5) + 1]>> ELSE <<>>]] :
       n \in 0..MaxWrTexts}

\* the record sets: slide k of the source gave record k
WrRecordLists(styled) ==
    UNION {{[n \in 1..k |-> [slide_number |-> n, texts |-> f[n], images |-> <<>>]] :
               f \in [1..k -> WrTextLists(styled)]} : k \in 0..MaxWrSlides}

\* 1_ppt_content_extractor.py line 174, ppt_content_generator.py line 132
HasText(text) == Strip(text) # <<>>

\* 1_ppt_content_extractor.py line 167: the records with a slide number
Matching(records, n) == SelectSeq(records, LAMBDA r : r.slide_number = n)

\* 1_ppt_content_extractor.py lines 172-178
RECURSIVE ReplaceFrom(_, _, _)
ReplaceFrom(shapes, texts, text_index) ==
    IF shapes = <<>> THEN <<>>
    ELSE IF HasText(Head(shapes).text) /\ text_index < Len(texts)
         THEN <<[Head(shapes) EXCEPT !.text = texts[text_index + 1].content]>>
                \o ReplaceFrom(Tail(shapes), texts, text_index + 1)
         ELSE <<Head(shapes)>> \o ReplaceFrom(Tail(shapes), texts, text_index)

\* 1_ppt_content_extractor.py line 163
ReplaceLoad ==
    /\ pc = "wr_start"
    /\ writer = "replace"
    /\ prs' = template
    /\ wr_slide_i' = 0
    /\ pc' = "wr_loop"
    /\ UNCHANGED <<log, reconcileVars, valVars, trVars, exVars, writer,
                   template_given, template, wr_records, saved_ppt, ppt_saved>>

\* 1_ppt_content_extractor.py lines 165-170: no record has the slide's number
ReplaceSlideSkip ==
    /\ pc = "wr_loop"
    /\ writer = "replace"
    /\ wr_slide_i < Len(prs)
    /\ Matching(wr_records, wr_slide_i + 1) = <<>>
    /\ wr_slide_i' = wr_slide_i + 1
    /\ UNCHANGED <<pc, log, reconcileVars, valVars, trVars, exVars, writer,
                   template_given, template, wr_records, prs, saved_ppt, ppt_saved>>

\* 1_ppt_content_extractor.py lines 165-178
ReplaceSlide ==
    /\ pc = "wr_loop"
    /\ writer = "replace"
    /\ wr_slide_i < Len(prs)
    /\ Matching(wr_records, wr_slide_i + 1) # <<>>
    /\ LET found == Head(Matching(wr_records, wr_slide_i + 1))
       IN  prs' = [prs EXCEPT ![wr_slide_i + 1] = ReplaceFrom(@, found.texts, 0)]
    /\ wr_slide_i' = wr_slide_i + 1
    /\ UNCHANGED <<pc, log, reconcileVars, valVars, trVars, exVars, writer,
                   template_given, template, wr_records, saved_ppt, ppt_saved>>

\* 1_ppt_content_extractor.py lines 180-182
ReplaceSave ==
    /\ pc = "wr_loop"
    /\ writer = "replace"
    /\ wr_slide_i = Len(prs)
    /\ saved_ppt' = prs
    /\ ppt_saved' = TRUE
    /\ log' = Append(log, Report("ppt_saved", 0, 0, Len(prs)))
    /\ pc' = "wr_done"
    /\ UNCHANGED <<reconcileVars, valVars, trVars, exVars, writer,
                   template_given, template, wr_records, prs, wr_slide_i>>

\* ppt_content_generator.py lines 131-199: the text box of one text_info;
\* with paragraphs in the style the runs get the texts the style recorded
TextBox(text_info) ==
    IF ~HasText(text_info.content) THEN <<>>
    ELSE <<[kind |-> "text",
            text |-> IF text_info.style # <<>> THEN text_info.style
                     ELSE text_info.content]>>

\* ppt_content_generator.py lines 65-66
TextBoxes(texts) == Flatten([t \in 1..Len(texts) |-> TextBox(texts[t])])

\* ppt_content_generator.py lines 25-41: the template's slides, or the
\* default slide of a new presentation, are removed
CreateLoad ==
    /\ pc = "wr_start"
    /\ writer = "create"
    /\ prs' = <<>>
    /\ wr_slide_i' = 0
    /\ log' = Append(log, Report(IF template_given THEN "use_template"
                                 ELSE "new_presentation", 0, 0, 0))
    /\ pc' = "wr_loop"
    /\ UNCHANGED <<reconcileVars, valVars, trVars, exVars, writer,
                   template_given, template, wr_records, saved_ppt, ppt_saved>>

\* ppt_content_generator.py lines 51-66
CreateSlide ==
    /\ pc = "wr_loop"
    /\ writer = "create"
    /\ wr_slide_i < Len(wr_records)
    /\ prs' = Append(prs, TextBoxes(wr_records[wr_slide_i + 1].texts))
    /\ wr_slide_i' = wr_slide_i + 1
    /\ UNCHANGED <<pc, log, reconcileVars, valVars, trVars, exVars, writer,
                   template_given, template, wr_records, saved_ppt, ppt_saved>>

\* ppt_content_generator.py lines 68-75
CreateSave ==
    /\ pc = "wr_loop"
    /\ writer = "create"
    /\ wr_slide_i = Len(wr_records)
    /\ saved_ppt' = prs
    /\ ppt_saved' = TRUE
    /\ log' = Append(log, Report("ppt_generated", 0, 0, Len(wr_records)))
    /\ pc' = "wr_done"
    /\ UNCHANGED <<reconcileVars, valVars, trVars, exVars, writer,
                   template_given, template, wr_records, prs, wr_slide_i>>

InitWrite ==
    /\ pc = "wr_start"
    /\ log = <<>>
    /\ writer \in {"replace", "create"}
    /\ template_given \in (IF writer = "replace" THEN {TRUE} ELSE BOOLEAN)
    /\ template \in (IF ~template_given THEN {<<>>}
                     ELSE IF writer = "replace" THEN WrDocs ELSE WrTemplates)
    /\ \E styled \in (IF writer = "replace" THEN {FALSE} ELSE BOOLEAN) :
          wr_records \in WrRecordLists(styled)
    /\ prs = <<>>
    /\ wr_slide_i = 0
    /\ saved_ppt = <<>>
    /\ ppt_saved = FALSE
    /\ ReconcileIdle
    /\ ValidateIdle
    /\ TranslateIdle
    /\ ExtractIdle

NextWrite ==
    \/ ReplaceLoad
    \/ ReplaceSlideSkip
    \/ ReplaceSlide
    \/ ReplaceSave
    \/ CreateLoad
    \/ CreateSlide
    \/ CreateSave

SpecWrite == InitWrite /\ [][NextWrite]_vars

----------------------------------------------------------------------------
(* Structured mode: properties of fill_japanese_content (SpecFill) *)

Range(seq) == {seq[j] : j \in 1..Len(seq)}

\* the slide numbers named by the reports of one kind, in report order
ReportedSlides(kind) ==
    LET picked == SelectSeq(log, LAMBDA r : r.kind = kind)
    IN  [j \in 1..Len(picked) |-> picked[j].slide]

\* the slide numbers of the input slides that satisfy Cond, in input order
RECURSIVE SlideNumbersWhere(_, _)
SlideNumbersWhere(Cond(_), s) ==
    IF s > Len(original_json) THEN <<>>
    ELSE (IF Cond(original_json[s]) THEN <<original_json[s].slide_number>> ELSE <<>>)
         \o SlideNumbersWhere(Cond, s + 1)

HasEntry(slide) == slide.slide_number \in DOMAIN translated_texts

IsMissing(slide) == ~HasEntry(slide)

HasSurplus(slide) ==
    HasEntry(slide) /\ Len(translated_texts[slide.slide_number]) > Len(slide.texts)

HasShortfall(slide) ==
    HasEntry(slide) /\ Len(translated_texts[slide.slide_number]) < Len(slide.texts)

\* C1: structured-mode reconciliation keeps the slide list: the records built
\* so far carry the slide numbers of the input records at the same indices,
\* and the written output has as many records as the input.
C1_SameLengthAndOrder ==
    /\ Len(japanese_data) = slide_i
    /\ \A s \in 1..Len(japanese_data) :
          japanese_data[s].slide_number = original_json[s].slide_number
    /\ pc = "fill_done" =>
          /\ output_written
          /\ Len(output_json) = Len(original_json)
          /\ \A s \in 1..Len(original_json) :
                output_json[s].slide_number = original_json[s].slide_number

\* a finished run over two slides numbered 2, 1, the first without entry
C1_Witness ==
    /\ pc = "fill_done"
    /\ Len(original_json) = 2
    /\ original_json[1].slide_number = 2
    /\ original_json[2].slide_number = 1
    /\ DOMAIN translated_texts = {1}
    /\ Len(output_json) = 2

\* C2: for a slide with an entry T in the translated mapping, output fragment
\* i holds T[i] when T has an i-th string and the fragment's original content
\* otherwise.
C2_IndexPairing ==
    pc = "fill_done" =>
        \A s \in 1..Len(original_json) :
            HasEntry(original_json[s]) =>
                LET T == translated_texts[original_json[s].slide_number]
                    orig == original_json[s].texts
                    out == output_json[s].texts
                IN  /\ Len(out) = Len(orig)
                    /\ \A i \in 1..Len(orig) :
                          out[i].content =
                              IF i <= Len(T) THEN T[i] ELSE orig[i].content

\* 3 fragments and T = [A, B] give [A, B, original third]
C2_Witness ==
    /\ pc = "fill_done"
    /\ \E s \in 1..Len(original_json) :
          /\ Len(original_json[s].texts) = 3
          /\ HasEntry(original_json[s])
          /\ translated_texts[original_json[s].slide_number] = << <<"A">>, <<"B">> >>
          /\ original_json[s].texts[3].content = <<"c">>
          /\ [i \in 1..3 |-> output_json[s].texts[i].content]
                = << <<"A">>, <<"B">>, <<"c">> >>

\* C8: a slide whose number has no entry in the translated mapping is written
\* out equal to its input record, and the 'no translation found' reports name
\* exactly those slides, in input order.
C8_MissingEntryPassThrough ==
    pc = "fill_done" =>
        /\ \A s \in 1..Len(original_json) :
              IsMissing(original_json[s]) => output_json[s] = original_json[s]
        /\ ReportedSlides("no_translation") = SlideNumbersWhere(IsMissing, 1)

\* two slides, the one with fragments has no entry, the other one has
C8_Witness ==
    /\ pc = "fill_done"
    /\ Len(original_json) = 2
    /\ \E s \in 1..2 :
          /\ IsMissing(original_json[s])
          /\ Len(original_json[s].texts) = 2
          /\ HasEntry(original_json[3 - s])
          /\ translated_texts[original_json[3 - s].slide_number] # <<>>
          /\ Len(original_json[3 - s].texts) >= 1

\* C9: the strings of a translated sequence beyond the slide's texts list are
\* written nowhere (no slide changes its fragment count, every fragment holds
\* its original content or the string paired with its own index), and the
\* surplus reports name exactly the slides whose sequence is longer.
C9_SurplusDroppedAndReported ==
    pc = "fill_done" =>
        /\ \A s \in 1..Len(original_json) :
              LET orig == original_json[s].texts
                  out == output_json[s].texts
              IN  /\ Len(out) = Len(orig)
                  /\ \A i \in 1..Len(orig) :
                        \/ out[i].content = orig[i].content
                        \/ /\ HasEntry(original_json[s])
                           /\ i <= Len(translated_texts[original_json[s].slide_number])
                           /\ out[i].content =
                                 translated_texts[original_json[s].slide_number][i]
        /\ ReportedSlides("surplus") = SlideNumbersWhere(HasSurplus, 1)

\* two slides: one with one fragment and two translated strings, which is
\* the only one named by a surplus report, and one whose sequence is not longer
C9_Witness ==
    /\ pc = "fill_done"
    /\ Len(original_json) = 2
    /\ \E s \in 1..2 :
          /\ HasSurplus(original_json[s])
          /\ Len(original_json[s].texts) = 1
          /\ Len(translated_texts[original_json[s].slide_number]) = 2
          /\ output_json[s].texts[1].content
                = translated_texts[original_json[s].slide_number][1]
          /\ ~HasSurplus(original_json[3 - s])
          /\ ReportedSlides("surplus") = <<original_json[s].slide_number>>

\* the number of under-translated slides of the run
UnderTranslatedSlides == Len(SlideNumbersWhere(HasShortfall, 1))

\* C10: a finished structured-mode run with under-translated slides reports
\* their count.
C10_ShortfallCountReported ==
    (pc = "fill_done" /\ UnderTranslatedSlides > 0) =>
        \E j \in 1..Len(log) :
            /\ log[j].kind = "under_translated_slides"
            /\ log[j].count = UnderTranslatedSlides

----------------------------------------------------------------------------
(* Flat mode: properties of complete_replacement (SpecFlat) *)

\* content has a character that is not whitespace
TrimmedNonEmpty(content) == \E j \in 1..Len(content) : content[j] \notin Whitespace

\* the fragment slots of a record set
Slots(slides) ==
    UNION {{<<s, t>> : t \in 1..Len(slides[s].texts)} : s \in 1..Len(slides)}

\* the non-empty positions of the input
PositionSlots ==
    {st \in Slots(original_json) :
        TrimmedNonEmpty(original_json[st[1]].texts[st[2]].content)}

\* the 0-based place of a position in document order
Rank(st) ==
    Cardinality({o \in PositionSlots :
                    o[1] < st[1] \/ (o[1] = st[1] /\ o[2] < st[2])})

NumPositions == Cardinality(PositionSlots)

NumTranslated == Len(japanese_texts)

\* the number of output fragments whose content is v
SlotsHolding(v) ==
    Cardinality({st \in Slots(output_json) :
                    output_json[st[1]].texts[st[2]].content = v})

\* the number of times v occurs in the translated list
Occurrences(v) == Cardinality({j \in 1..NumTranslated : japanese_texts[j] = v})

\* no slide but the last has changed its fragment count, the last has grown by n
GrownBy(n) ==
    /\ Len(output_json) = Len(original_json)
    /\ \A s \in 1..Len(original_json) :
          Len(output_json[s].texts) =
              Len(original_json[s].texts) + (IF s = Len(original_json) THEN n ELSE 0)

\* C3: with fewer translated strings than positions, position k (0-based, in
\* document order) receives translated string k mod T.
C3_WrapAround ==
    (pc = "flat_done" /\ NumTranslated < NumPositions) =>
        \A st \in PositionSlots :
            output_json[st[1]].texts[st[2]].content =
                japanese_texts[(Rank(st) % NumTranslated) + 1]

\* 3 positions over two slides and [A, B] give [A, B, A]
C3_Witness ==
    /\ pc = "flat_done"
    /\ japanese_texts = << <<"A">>, <<"B">> >>
    /\ text_positions = << <<1, 2>>, <<2, 1>>, <<2, 2>> >>
    /\ output_json[1].texts[2].content = <<"A">>
    /\ output_json[2].texts[1].content = <<"B">>
    /\ output_json[2].texts[2].content = <<"A">>

\* C4: with as many translated strings as positions, the index never wraps,
\* the k-th position receives the k-th string, every string is the content of
\* as many fragments as it occurs in the list, and no slide grows.
C4_EqualCounts ==
    NumTranslated = NumPositions =>
        /\ pc \in {"flat_loop", "flat_save", "flat_done"} => japanese_index = pos_i
        /\ pc = "flat_done" =>
              /\ \A st \in PositionSlots :
                    output_json[st[1]].texts[st[2]].content =
                        japanese_texts[Rank(st) + 1]
              /\ \A v \in Range(japanese_texts) : SlotsHolding(v) = Occurrences(v)
              /\ GrownBy(0)

\* 3 positions and 3 strings
C4_Witness ==
    /\ pc = "flat_done"
    /\ NumPositions = 3
    /\ japanese_texts = << <<"A">>, <<"B">>, <<"A">> >>
    /\ Len(original_json) = 2
    /\ SlotsHolding(<<"A">>) = 2
    /\ SlotsHolding(<<"B">>) = 1

\* C5 as stated: after every flat-mode run every translated string is the
\* content of exactly one fragment of the output record set (once per
\* occurrence in the list).
C5_UsedExactlyOnce ==
    pc \in {"flat_done", "flat_abort"} =>
        \A v \in Range(japanese_texts) : SlotsHolding(v) = Occurrences(v)

\* C5 amended: in every run that writes an output record set every translated
\* string is the content of at least one fragment, and of exactly one when
\* there are at least as many strings as positions.
C5_UsedAtLeastOnce ==
    pc = "flat_done" =>
        /\ output_written
        /\ \A v \in Range(japanese_texts) :
              /\ SlotsHolding(v) >= Occurrences(v)
              /\ NumTranslated >= NumPositions => SlotsHolding(v) = Occurrences(v)

\* 3 positions and [A, B]: A is held by two fragments
C5_Witness ==
    /\ pc = "flat_done"
    /\ NumPositions = 3
    /\ japanese_texts = << <<"B">>, <<"A">> >>
    /\ SlotsHolding(<<"B">>) = 2
    /\ SlotsHolding(<<"A">>) >= 1

\* C6 as stated: after every flat-mode run every fragment whose original
\* content was not empty holds a non-empty translated string in the produced
\* record set.
C6_EveryNonEmptyReplaced ==
    pc \in {"flat_done", "flat_abort"} =>
        \A st \in Slots(original_json) :
            original_json[st[1]].texts[st[2]].content # <<>> =>
                /\ output_written
                /\ output_json[st[1]].texts[st[2]].content # <<>>
                /\ output_json[st[1]].texts[st[2]].content \in Range(japanese_texts)

\* C6 amended: after every flat-mode run with a non-empty translated list,
\* every fragment whose original content is not empty after trimming holds a
\* translated string that is not empty after trimming.
C6_TrimmedNonEmptyReplaced ==
    (pc \in {"flat_done", "flat_abort"} /\ japanese_texts # <<>>) =>
        \A st \in PositionSlots :
            /\ output_written
            /\ output_json[st[1]].texts[st[2]].content \in Range(japanese_texts)
            /\ TrimmedNonEmpty(output_json[st[1]].texts[st[2]].content)

\* 3 positions next to a whitespace-only fragment, and one translated string
C6_Witness ==
    /\ pc = "flat_done"
    /\ NumPositions = 3
    /\ NumTranslated = 1
    /\ Slots(original_json) # PositionSlots
    /\ \A st \in PositionSlots :
          output_json[st[1]].texts[st[2]].content = japanese_texts[1]

\* the fragments appended for the strings P+1..T (1-based) of the list
Leftovers ==
    [j \in 1..(NumTranslated - NumPositions) |->
        [content |-> japanese_texts[NumPositions + j]]]

LeftoversAtEndOfLastSlide ==
    /\ output_written
    /\ original_json # <<>>
    /\ GrownBy(NumTranslated - NumPositions)
    /\ LET last == Len(original_json)
       IN  SubSeq(output_json[last].texts, Len(original_json[last].texts) + 1,
                  Len(output_json[last].texts)) = Leftovers

ReuseCount == IF NumPositions > NumTranslated THEN NumPositions - NumTranslated ELSE 0

\* C11: a finished flat-mode run with fewer translated strings than positions
\* has flagged a reuse warning that carries the reuse count, and a run without
\* reuse has flagged none.
C11_ReuseWarningFlagged ==
    pc = "flat_done" =>
        /\ ReuseCount > 0 =>
              \E j \in 1..Len(log) :
                  log[j].kind = "reuse_warning" /\ log[j].count = ReuseCount
        /\ ReuseCount = 0 =>
              \A j \in 1..Len(log) : log[j].kind # "reuse_warning"

\* C20: after a finished flat-mode run no slide but the last has changed its
\* fragment count and the last slide has grown by max(0, T - P).
C20_FragmentCountLaw ==
    pc = "flat_done" =>
        GrownBy(IF NumTranslated > NumPositions
                THEN NumTranslated - NumPositions ELSE 0)

\* the run has ended: no action of either entry point is enabled any more
RunEnded ==
    pc \in {"exit_1", "fill_done", "fill_error", "flat_done", "flat_abort",
            "flat_crash"}

\* C13: in both modes a run started without the original JSON or without the
\* translated text ends in exit(1) with a missing-file report as its only
\* report and without writing output, and no run with both files ends so.
C13_MissingInputEndsFileNotFound ==
    RunEnded =>
        /\ (~original_exists \/ ~txt_exists) =>
              /\ pc = "exit_1"
              /\ ~output_written
              /\ output_json = <<>>
              /\ Len(log) = 1
              /\ log[1].kind = IF original_exists THEN "txt_missing"
                                ELSE "original_missing"
        /\ (original_exists /\ txt_exists) =>
              /\ pc # "exit_1"
              /\ \A j \in 1..Len(log) :
                     log[j].kind \notin {"txt_missing", "original_missing"}

\* a run without the translated text has ended
C13_Witness ==
    /\ pc = "exit_1"
    /\ original_exists
    /\ ~txt_exists
    /\ original_json # <<>>
    /\ log = <<Report("txt_missing", 0, 0, 0)>>

\* C14: a structured-mode run whose translated source has no parsable slide
\* marker (the parsed mapping is empty) ends with a parse-error report and
\* writes no output.
C14_MalformedSourceRejected ==
    (pc = "fill_done" /\ DOMAIN translated_texts = {}) =>
        /\ ~output_written
        /\ \E j \in 1..Len(log) : log[j].kind = "parse_error"

\* the fragment the scan has just examined is counted as residue
CountedAsResidue == chinese_count' = chinese_count + 1

\* the fragment the scan has just examined is listed in the defect report
ListedAsExample ==
    /\ chinese_examples' = Append(chinese_examples, Prefix(val_content', ExampleChars))
    /\ pc' = "val_scan"

CallsFor(s, t) == {j \in 1..Len(api_calls) : api_calls[j].slide = s /\ api_calls[j].text = t}

\* C15: no fragment is ever sent to the service twice; when the batch has
\* returned, every fragment was sent exactly once, a fragment whose call
\* failed holds its original text, and the output has the slide count, the
\* slide numbers and the per-slide fragment count and order of the input.
C15_OneCallAndFallback ==
    /\ \A j, k \in 1..Len(api_calls) :
          (api_calls[j].slide = api_calls[k].slide /\
           api_calls[j].text = api_calls[k].text) => j = k
    /\ pc = "tr_done" =>
          /\ Len(translated_slides) = Len(tr_slides_data)
          /\ \A s \in 1..Len(tr_slides_data) :
                LET in == tr_slides_data[s]
                    out == translated_slides[s]
                IN  /\ out.slide_number = in.slide_number
                    /\ Len(out.texts) = Len(in.texts)
                    /\ \A t \in 1..Len(in.texts) :
                          /\ out.texts[t].original_content = in.texts[t].content
                          /\ Cardinality(CallsFor(s, t)) = 1
                          /\ \A j \in CallsFor(s, t) :
                                /\ api_calls[j].request = in.texts[t].content
                                /\ ~api_calls[j].ok =>
                                      out.texts[t].content = in.texts[t].content

\* a batch of two slides has returned; the first call of the second slide
\* failed and the calls around it succeeded
C15_Witness ==
    /\ pc = "tr_done"
    /\ Len(tr_slides_data) = 2
    /\ tr_slides_data[1].slide_number = 2
    /\ Len(tr_slides_data[1].texts) = 1
    /\ Len(tr_slides_data[2].texts) = 2
    /\ [j \in 1..Len(api_calls) |-> api_calls[j].ok] = <<TRUE, FALSE, TRUE>>
    /\ translated_slides[2].texts[1].content = <<"a">>
    /\ translated_slides[2].texts[2].content = <<"J", "b">>

\* the shapes of slide i whose trimmed text is not empty, in traversal order
TextBearing(i) == SelectSeq(shapes_seen[i], LAMBDA shape : Strip(shape.text) # <<>>)

\* C16: the texts of every extracted slide are the trimmed texts of its
\* shapes with non-empty trimmed text, in traversal order.
C16_TextsInTraversalOrder ==
    \A i \in 1..Len(all_slides) :
        LET texts == all_slides[i].texts
        IN  /\ Len(texts) = Len(TextBearing(i))
            /\ \A j \in 1..Len(texts) : texts[j].content = Strip(TextBearing(i)[j].text)

\* the ImageRefs recorded so far, the current slide's last
Recorded ==
    Flatten([j \in 1..Len(all_slides) |-> all_slides[j].images])
      \o (IF pc = "ex_shapes" THEN slide_info.images ELSE <<>>)

\* C17: no two recorded ImageRefs have the same filename, and the file of
\* every recorded ImageRef holds the image of the shape it was recorded for.
C17_RecordedFilesDistinctAndIntact ==
    /\ \A j, k \in 1..Len(Recorded) :
          Recorded[j].filename = Recorded[k].filename => j = k
    /\ \A j \in 1..Len(Recorded) :
          /\ Recorded[j].filename \in DOMAIN files
          /\ files[Recorded[j].filename] = Blob(Recorded[j].position)

\* the first slide has a picture; on the second slide the write of the
\* first picture raised and the next picture took over its file name
C17_Witness ==
    /\ pc = "ex_shapes"
    /\ ex_slide_i = 2
    /\ Len(all_slides[1].images) = 1
    /\ Len(shapes_seen[2]) = 2
    /\ shapes_seen[2][1].image = "raises_after_open"
    /\ shapes_seen[2][2].image = "ok"
    /\ slide_info.images[1].filename = ImageName(2, 1, "png")
    /\ files[ImageName(2, 1, "png")] = Blob(Position(2, 2))

\* C18: a document written from a template (base) document has as many
\* slides as there are records.
C18_SlideCountMatchesRecords ==
    (pc = "wr_done" /\ template_given) => Len(saved_ppt) = Len(wr_records)

\* the record a writer uses for the i-th written slide, as a list of 0 or 1
RecordsFor(i) ==
    IF writer = "create" THEN <<wr_records[i]>>
    ELSE SubSeq(Matching(wr_records, i), 1, 1)

\* the shapes the i-th slide had before the writer touched it
ExistingShapes(i) == IF writer = "create" THEN <<>> ELSE template[i]

\* the positions of the shapes with text
WithText(shapes) ==
    SelectSeq([k \in 1..Len(shapes) |-> k], LAMBDA k : HasText(shapes[k].text))

\* C19: on every written slide whose record has more non-empty fragments
\* than the slide had shapes with text, the j-th such shape holds the j-th
\* fragment and every non-empty fragment is the text of a shape.
C19_SurplusInNewTextBoxes ==
    pc = "wr_done" =>
        \A i \in 1..Len(saved_ppt) : \A r \in Range(RecordsFor(i)) :
            LET fragments == SelectSeq(r.texts, LAMBDA f : HasText(f.content))
                existing == WithText(ExistingShapes(i))
                written == saved_ppt[i]
            IN  Len(fragments) > Len(existing) =>
                  /\ \A j \in 1..Len(existing) :
                        written[existing[j]].text = fragments[j].content
                  /\ \A j \in 1..Len(fragments) :
                        \E k \in 1..Len(written) :
                            written[k].text = fragments[j].content

----------------------------------------------------------------------------
(* The block labels of the translated file (SpecRoundTrip) *)

BlockNo(sym) == IF sym = "K1" THEN 1 ELSE IF sym = "K2" THEN 2 ELSE 3

\* the strings of a translated file, each with the numbers of the page marker
\* and of the block marker it stands under
LabelledStrings(file) ==
    LET pmarks == IndicesFrom(file, PageMarks, 1)
        pages  == Pieces(file, pmarks)
    IN  UNION {LET bmarks == IndicesFrom(pages[j], BlockMarks, 1)
                   blocks == Pieces(pages[j], bmarks)
               IN  {[slide  |-> PageNo(file[pmarks[j]]),
                     block  |-> BlockNo(pages[j][bmarks[b]]),
                     string |-> Strip(blocks[b])] : b \in 1..Len(bmarks)} :
               j \in 1..Len(pmarks)}

\* no other string of the file stands under the same two numbers
LabelledOnce(l, file) ==
    \A m \in LabelledStrings(file) :
        (m.slide = l.slide /\ m.block = l.block) => m = l

\* C21: once the structured run has written its output, every non-empty
\* string of the translated file that stands under block marker K of page
\* marker N (the only string under these two numbers) is the content of the
\* K-th fragment of the output slide N, counting all the fragments of the
\* slide, whenever the slide has a K-th fragment; this also when the block
\* numbers of the page have gaps, when an earlier block of the page is empty
\* and when a fragment of the slide had empty content.
C21_BlockLabelNamesFragment ==
    (pc = "fill_done" /\ output_written) =>
        \A l \in LabelledStrings(translated_txt) :
            (l.string # <<>> /\ LabelledOnce(l, translated_txt)) =>
                \A s \in 1..Len(output_json) :
                    (/\ output_json[s].slide_number = l.slide
                     /\ l.block <= Len(output_json[s].texts))
                    => output_json[s].texts[l.block].content = l.string

----------------------------------------------------------------------------
(* The frame of the two reconcilers (SpecRun) *)

\* the slides out keep everything of the slides in but the contents of their
\* fragments: as many slides, each with its slide_number and its images, and
\* the fragments of the input first and in their order, each with its
\* position, its style and every other field
FrameKept(in, out) ==
    /\ Len(out) = Len(in)
    /\ \A s \in 1..Len(in) :
          /\ out[s].slide_number = in[s].slide_number
          /\ out[s].images = in[s].images
          /\ Len(out[s].texts) >= Len(in[s].texts)
          /\ \A t \in 1..Len(in[s].texts) :
                [out[s].texts[t] EXCEPT !.content = in[s].texts[t].content]
                    = in[s].texts[t]

\* the fragments of in with empty or whitespace-only content are the same in out
BlankKept(in, out) ==
    \A s \in 1..Len(in) : \A t \in 1..Len(in[s].texts) :
        Strip(in[s].texts[t].content) = <<>> =>
            /\ t <= Len(out[s].texts)
            /\ out[s].texts[t] = in[s].texts[t]

\* C22: in both modes the written output differs from the input, for the
\* fragments the input had, in nothing but their content: slide_number,
\* images, the number and order of those fragments and their position and
\* style are the input's; in flat mode a fragment with empty or
\* whitespace-only content is written back as it was.
C22_ReconcilerFrame ==
    output_written =>
        /\ FrameKept(original_json, output_json)
        /\ pc = "flat_done" => BlankKept(original_json, output_json)

\* a flat run has written its output: one fragment has new content but its
\* position and style, a whitespace-only fragment is as it was, and the last
\* slide has grown
C22_Witness ==
    /\ pc = "flat_done"
    /\ output_written
    /\ \E s \in 1..Len(original_json) : \E t \in 1..Len(original_json[s].texts) :
          /\ output_json[s].texts[t].content # original_json[s].texts[t].content
          /\ output_json[s].texts[t].position = original_json[s].texts[t].position
    /\ \E s \in 1..Len(original_json) : \E t \in 1..Len(original_json[s].texts) :
          /\ original_json[s].texts[t].content = <<" ">>
          /\ output_json[s].texts[t] = original_json[s].texts[t]
    /\ Len(output_json[Len(output_json)].texts)
          > Len(original_json[Len(original_json)].texts)

====
